---- MODULE Spec2Model ----
(***************************************************************************)
(* Smart meter simulator (src/meter/meter_simulator.py): SmartMeter and    *)
(* MeterFleet as a state machine.                                          *)
(*                                                                         *)
(* Conventions.                                                            *)
(*  - An Optional argument is <<>> (None) or <<v>>.                        *)
(*  - Energy amounts are exact thousandths of a kWh.  A kwh value is a     *)
(*    record [milli, float]: float = FALSE is the Python int 0 that        *)
(*    max(0, x) returns when x <= 0, float = TRUE a Python float.          *)
(*  - hourly_factors are tenths, base_output and variance whole kWh.       *)
(*  - HMAC-SHA256 and SHA-256 are collision-free: a digest is a record     *)
(*    of the hashed inputs.                                                *)
(*  - Exceptions are outcomes: the name of the exception raised, or "ok".  *)
(***************************************************************************)
EXTENDS Integers, Sequences, FiniteSets, TLC

\* ------------------------------------------------------------ bounds
\* SmartMeter instances a fleet run constructs.
MaxMeters == 2
\* generate_reading calls (that reach line 173) in one run.
MaxReadings == 2
\* Threads calling generate_reading concurrently on one meter.
NumThreads == 2

\* Offset of local time from UTC, in hours.
TzOffsetHours == 0
\* The range datetime.fromtimestamp accepts (years 1..9999), scaled to the
\* model's 32-bit integers.
MinTimestamp == -100000000
MaxTimestamp == 100000000

\* ------------------------------------------------------------ inputs
None == <<>>
Some(v) == <<v>>

\* int(time.time() * 1000): the values a clock read can yield (the wall
\* clock is not monotonic); both fall in hour 0 of the local day.
ClockValues == {1000, 1001}
\* uuid.uuid4().hex: the values a nonce draw can take.
Nonces == {"n1", "n2"}
\* uuid.uuid4().hex[:8].upper(): the values an identity suffix can take.
HexSuffixes == {"0000000A"}
\* secrets.randbelow(1000): the lowest draw, one whose amount truncates
\* low, and the highest draw.
RandDraws == {0, 2, 999}
\* meter_type arguments; "WIND" is not a member of MeterType.
MeterTypeArgs == {"SOLAR", "HOSTEL", "LAB", "WIND"}
\* meter_id arguments.
MeterIdArgs == {None, Some("M1")}
\* custom_timestamp arguments: absent, the epoch, hour 12, one hour before
\* the epoch, and a value outside the platform's range.
TimestampArgs ==
    {None, Some(0), Some(43200000), Some(-3600000), Some(-200000000)}
\* What the calls of a fleet run draw: one amount, one nonce.
FleetDraws == {999}
FleetNonces == {"n1"}

\* ------------------------------------------------------------ enums, config
MeterType == {"SOLAR", "HOSTEL", "LAB"}

CarbonTag == {"GREEN", "NORMAL"}

METER_CONFIGS ==
    [t \in MeterType |->
       CASE t = "SOLAR" ->
              [prefix |-> "SOLAR", carbon_tag |-> "GREEN", base_output |-> 5,
               variance |-> 2, is_producer |-> TRUE,
               hourly_factors |->
                 << 0, 0, 0, 0, 0, 1,   3, 5, 7, 9, 10, 10,
                    10, 10, 9, 7, 5, 3,   1, 0, 0, 0, 0, 0 >>]
         [] t = "HOSTEL" ->
              [prefix |-> "HOSTEL", carbon_tag |-> "NORMAL", base_output |-> 10,
               variance |-> 5, is_producer |-> FALSE,
               hourly_factors |->
                 << 3, 2, 2, 2, 3, 5,   8, 9, 7, 4, 3, 4,
                    5, 5, 5, 6, 7, 8,   10, 12, 12, 10, 7, 5 >>]
         [] t = "LAB" ->
              [prefix |-> "LAB", carbon_tag |-> "NORMAL", base_output |-> 15,
               variance |-> 3, is_producer |-> FALSE,
               hourly_factors |->
                 << 1, 1, 1, 1, 1, 1,   2, 3, 8, 10, 10, 8,
                    4, 8, 10, 10, 9, 5,   2, 1, 1, 1, 1, 1 >>]]

\* ------------------------------------------------------------ numbers
\* The thousandths m for which the double nearest m/1000, times 1000, is
\* just below m (IEEE-754 binary64), so that int() truncates to m - 1.
TruncatedLow ==
    {
      1001, 1003, 1005, 1007, 1009, 1011, 1013, 1015, 1017, 1019, 1021, 1023,
      2002, 2006, 2010, 2014, 2018, 2022, 2026, 2030, 2034, 2038, 2042, 2046,
      4004, 4007, 4012, 4015, 4020, 4023, 4028, 4031, 4036, 4039, 4044, 4047,
      4052, 4055, 4060, 4063, 4068, 4071, 4076, 4079, 4084, 4087, 4092, 4095,
      8001, 8008, 8011, 8014, 8017, 8024, 8027, 8030, 8033, 8040, 8043, 8046,
      8049, 8056, 8059, 8062, 8065, 8072, 8075, 8078, 8081, 8088, 8091, 8094,
      8097, 8104, 8107, 8110, 8120, 8123, 8126, 8133, 8136, 8139, 8142, 8149,
      8152, 8155, 8158, 8165, 8168, 8171, 8174, 8181, 8184, 8187, 8190, 16002,
      16005, 16016, 16019, 16022, 16025, 16028, 16031, 16034, 16037, 16048, 16051, 16054,
      16057, 16060, 16063, 16066, 16069, 16080, 16083, 16086, 16089, 16092, 16095, 16098,
      16112, 16115, 16118, 16121, 16124, 16127, 16130, 16141, 16144, 16147, 16150, 16153,
      16156, 16159, 16162, 16173, 16176, 16179, 16182, 16185, 16188, 16191, 16194, 16205,
      16208, 16211, 16214, 16217, 16220, 16223, 16237, 16240, 16243, 16246, 16249, 16252,
      16255, 16266, 16269, 16272, 16275, 16278, 16281, 16284, 16287, 16298, 16301, 16304,
      16307, 16310, 16313, 16316, 16319, 16330, 16333, 16336, 16339, 16342, 16345, 16348,
      16362, 16365, 16368, 16371, 16374, 16377, 16380
    }

\* int(rounded_kwh * 1000)
IntOfTimes1000(kwh) ==
    IF kwh.float /\ kwh.milli \in TruncatedLow THEN kwh.milli - 1 ELSE kwh.milli

Digit(d) == ToString(d)

\* repr() of a float that is a whole number of thousandths: shortest digits,
\* at least one after the point.
FloatRepr(milli) ==
    LET a == IF milli < 0 THEN 0 - milli ELSE milli
        whole == a \div 1000
        frac == a % 1000
        d1 == frac \div 100
        d2 == (frac \div 10) % 10
        d3 == frac % 10
        digits == IF d3 # 0 THEN Digit(d1) \o Digit(d2) \o Digit(d3)
                  ELSE IF d2 # 0 THEN Digit(d1) \o Digit(d2)
                  ELSE Digit(d1)
    IN  (IF milli < 0 THEN "-" ELSE "") \o ToString(whole) \o "." \o digits

\* str() / json encoding of a kwh value: "0" for the int 0, repr for a float.
NumStr(kwh) == IF kwh.float THEN FloatRepr(kwh.milli) ELSE ToString(kwh.milli)

\* max(0, x), x in ten-thousandths of a kWh: the first argument, the int 0,
\* unless x is strictly greater.
Max0(x) == IF x > 0 THEN [raw |-> x, float |-> TRUE]
           ELSE [raw |-> 0, float |-> FALSE]

\* round(kwh, 3): the int 0 stays the int 0; a float goes to the nearest
\* thousandth, a tie to the even one.
Round3(kwh) ==
    LET q == kwh.raw \div 10
        rem == kwh.raw % 10
        up == rem > 5 \/ (rem = 5 /\ q % 2 = 1)
    IN  [milli |-> IF up THEN q + 1 ELSE q, float |-> kwh.float]

\* ------------------------------------------------------------ state
VARIABLES
    crypto_available,  \* CRYPTO_AVAILABLE: whether the import block bound hmac
    heap,              \* the SmartMeter instances constructed, by handle 1..n
    returned,          \* history: readings each instance has returned
    meters,            \* MeterFleet.meters: sequence of [key, value] pairs
    last,              \* the last call: operation, arguments, outcome, value
    threads,           \* concurrent generate_reading calls in flight
    held               \* a reading a caller has kept, None when it has none

vars == <<crypto_available, heap, returned, meters, last, threads, held>>

\* ------------------------------------------------------------ dict
\* Python dict as a sequence of pairs in insertion order.
DictKeys(d) == {d[i].key : i \in 1..Len(d)}

DictIndex(d, k) == CHOOSE i \in 1..Len(d) : d[i].key = k

\* d.get(k): <<>> when k is missing
DictGet(d, k) == IF k \in DictKeys(d) THEN Some(d[DictIndex(d, k)].value) ELSE None

\* d[k] = v: a present key keeps its place, a new key goes last
DictSet(d, k, v) ==
    IF k \in DictKeys(d)
    THEN [d EXCEPT ![DictIndex(d, k)] = [key |-> k, value |-> v]]
    ELSE Append(d, [key |-> k, value |-> v])

\* list(d.values())
DictValues(d) == [i \in 1..Len(d) |-> d[i].value]

\* ------------------------------------------------------------ SmartMeter
\* x or default, x an Optional[str]
StrOr(x, default) == IF x # None /\ x[1] # "" THEN x[1] ELSE default

\* x or default, x an Optional[int]
IntOr(x, default) == IF x # None /\ x[1] # 0 THEN x[1] ELSE default

\* secrets.token_hex(32): 256 random bits, a fresh value at each draw; the
\* n-th instance constructed draws the n-th key.
token_hex(n) == "key" \o ToString(n)

\* SmartMeter.__init__: the instance, given the key and suffix drawn.
\* Defined for meter_type in METER_CONFIGS; otherwise __init__ raises.
SmartMeter_init(meter_type, meter_id, key, suffix) ==
    [meter_type |-> meter_type,
     meter_id |-> StrOr(meter_id, METER_CONFIGS[meter_type].prefix \o "-" \o suffix),
     secret_key |-> key,
     reading_count |-> 0]

config(self) == METER_CONFIGS[self.meter_type]

\* The payload with the nonce among its keys
json_dumps_payload_with_nonce(data) ==
    "{\"carbonTag\": \"" \o data.carbon_tag
      \o "\", \"kWh\": " \o NumStr(data.kwh)
      \o ", \"meterId\": \"" \o data.meter_id
      \o "\", \"nonce\": \"" \o data.nonce
      \o "\", \"timestamp\": " \o ToString(data.timestamp)
      \o ", \"type\": \"" \o data.meter_type \o "\"}"

\* json.dumps({...}, sort_keys=True) of the signed payload
json_dumps_payload(data) ==
    "{\"carbonTag\": \"" \o data.carbon_tag
      \o "\", \"kWh\": " \o NumStr(data.kwh)
      \o ", \"meterId\": \"" \o data.meter_id
      \o "\", \"timestamp\": " \o ToString(data.timestamp)
      \o ", \"type\": \"" \o data.meter_type \o "\"}"

\* hmac.new(key, msg, sha256).hexdigest()
hmac_sha256(key, msg) == [hmac |-> msg, key |-> key]

\* hashlib.sha256(msg).hexdigest()
sha256(msg) == [sha256 |-> msg]

\* SmartMeter._sign_data (with hmac bound)
sign_data(self, data) == hmac_sha256(self.secret_key, json_dumps_payload(data))

\* SmartMeter._generate_data_hash
generate_data_hash(self, data) ==
    [prefix |-> "0x",
     hex |-> sha256(data.meter_id \o ":" \o NumStr(data.kwh) \o ":"
                      \o ToString(data.timestamp) \o ":" \o data.nonce)]

\* datetime.fromtimestamp(timestamp / 1000): local time; raises outside the
\* platform's range.
InRange(timestamp) == timestamp >= MinTimestamp /\ timestamp <= MaxTimestamp

fromtimestamp(timestamp) ==
    LET local == timestamp + TzOffsetHours * 3600000
    IN  [day |-> local \div 86400000,
         hour |-> (local \div 3600000) % 24,
         minute |-> (local \div 60000) % 60,
         second |-> (local \div 1000) % 60,
         microsecond |-> (local % 1000) * 1000]

\* dt.isoformat(): the date as days since 1970-01-01, then the time fields
isoformat(dt) == <<dt.day, "T", dt.hour, dt.minute, dt.second, dt.microsecond>>

\* The energy with the draw taken as the whole variance, not centred on
\* the base
Energy_uncentered(self, hour, draw) ==
    LET hourly_factor == config(self).hourly_factors[hour + 1]
        base_energy == config(self).base_output * hourly_factor * 1000
        variance == draw * config(self).variance * 10
        kwh == Max0(base_energy + variance)
    IN  Round3(kwh)

\* Lines 165-171: the rounded energy for an hour and a randbelow(1000) draw.
Energy(self, hour, draw) ==
    LET hourly_factor == config(self).hourly_factors[hour + 1]
        base_energy == config(self).base_output * hourly_factor * 1000
        variance == (draw - 500) * config(self).variance * 10
        kwh == Max0(base_energy + variance)
    IN  Round3(kwh)

\* Lines 176-183: the dict handed to _sign_data and _generate_data_hash
SignData(self, rounded_kwh, timestamp, nonce) ==
    [meter_id |-> self.meter_id,
     meter_type |-> self.meter_type,
     kwh |-> rounded_kwh,
     timestamp |-> timestamp,
     carbon_tag |-> config(self).carbon_tag,
     nonce |-> nonce]

\* Lines 185-198: the MeterReading; self is the meter after line 173.
MeterReading(self, rounded_kwh, timestamp, nonce, reading_number) ==
    LET data == SignData(self, rounded_kwh, timestamp, nonce)
    IN  [meter_id |-> self.meter_id,
         meter_type |-> self.meter_type,
         kwh |-> rounded_kwh,
         kwh_scaled |-> IntOfTimes1000(rounded_kwh),
         timestamp |-> timestamp,
         timestamp_iso |-> isoformat(fromtimestamp(timestamp)),
         carbon_tag |-> config(self).carbon_tag,
         is_producer |-> config(self).is_producer,
         nonce |-> nonce,
         reading_number |-> reading_number,
         signature |-> sign_data(self, data),
         data_hash |-> generate_data_hash(self, data)]

\* SmartMeter.generate_reading, run to completion: the outcome, the meter
\* afterwards and the reading returned (when the outcome is "ok").
\* clock is the value int(time.time() * 1000) yields if it is read.
generate_reading(self, crypto, custom_timestamp, clock, draw, nonce) ==
    LET timestamp == IntOr(custom_timestamp, clock)
    IN  IF ~InRange(timestamp)
        THEN [outcome |-> "ValueError", self |-> self]
        ELSE
          LET dt == fromtimestamp(timestamp)
              rounded_kwh == Energy(self, dt.hour, draw)
              bumped == [self EXCEPT !.reading_count = @ + 1]
          IN  IF ~crypto
              THEN [outcome |-> "NameError", self |-> bumped]
              ELSE [outcome |-> "ok", self |-> bumped,
                    reading |-> MeterReading(bumped, rounded_kwh, timestamp,
                                             nonce, bumped.reading_count)]

\* verify_reading with the amount rebuilt from kwh_scaled / 1000
verify_reading_from_scaled(self, reading) ==
    LET data == [meter_id |-> reading.meter_id,
                 meter_type |-> reading.meter_type,
                 kwh |-> [milli |-> reading.kwh_scaled, float |-> TRUE],
                 timestamp |-> reading.timestamp,
                 carbon_tag |-> reading.carbon_tag,
                 nonce |-> reading.nonce]
    IN  reading.signature = sign_data(self, data)

\* SmartMeter.verify_reading (with hmac bound): hmac.compare_digest of the
\* stored signature and the one recomputed from the reading's fields.
verify_reading(self, reading) ==
    LET data == [meter_id |-> reading.meter_id,
                 meter_type |-> reading.meter_type,
                 kwh |-> reading.kwh,
                 timestamp |-> reading.timestamp,
                 carbon_tag |-> reading.carbon_tag,
                 nonce |-> reading.nonce]
    IN  reading.signature = sign_data(self, data)

\* SmartMeter.get_info
get_info(self) ==
    [meter_id |-> self.meter_id,
     type |-> self.meter_type,
     carbon_tag |-> config(self).carbon_tag,
     is_producer |-> config(self).is_producer,
     total_readings |-> self.reading_count]

\* ------------------------------------------------------------ MeterFleet
\* MeterFleet.get_meter: the handle stored under meter_id, or None
get_meter(fleet, meter_id) == DictGet(fleet, meter_id)

\* Line 237: self.meters[meter.meter_id] = meter (the meter by its handle)
add_meter_insert(fleet, meter_id, handle) == DictSet(fleet, meter_id, handle)

\* MeterFleet.get_status over the fleet's meters, in dict order
RECURSIVE CountIf(_, _)
CountIf(infos, wanted) ==
    IF infos = <<>> THEN 0
    ELSE (IF Head(infos).is_producer = wanted THEN 1 ELSE 0)
           + CountIf(Tail(infos), wanted)

\* get_status with the two counters swapped
get_status_swapped(fleet, hp) ==
    LET vals == DictValues(fleet)
        infos == [i \in 1..Len(vals) |-> get_info(hp[vals[i]])]
    IN  [total_meters |-> Len(fleet),
         producers |-> CountIf(infos, FALSE),
         consumers |-> CountIf(infos, TRUE),
         meters |-> infos]

get_status(fleet, hp) ==
    LET vals == DictValues(fleet)
        infos == [i \in 1..Len(vals) |-> get_info(hp[vals[i]])]
    IN  [total_meters |-> Len(fleet),
         producers |-> CountIf(infos, TRUE),
         consumers |-> CountIf(infos, FALSE),
         meters |-> infos]

\* MeterFleet.generate_all_readings: generate_reading on each value of the
\* dict in turn; the first exception ends the call.  choice[i] is what the
\* i-th call draws: [draw, nonce, clock].
RECURSIVE generate_all_readings(_, _, _, _, _, _, _)
generate_all_readings(vals, i, crypto, custom_timestamp, choice, hp, acc) ==
    IF i > Len(vals)
    THEN [outcome |-> "ok", heap |-> hp, value |-> acc]
    ELSE
      LET h == vals[i]
          res == generate_reading(hp[h], crypto, custom_timestamp,
                                  choice[i].clock, choice[i].draw,
                                  choice[i].nonce)
          hp2 == [hp EXCEPT ![h] = res.self]
      IN  IF res.outcome # "ok"
          THEN [outcome |-> res.outcome, heap |-> hp2, value |-> acc]
          ELSE generate_all_readings(vals, i + 1, crypto, custom_timestamp,
                                     choice, hp2, Append(acc, res.reading))

\* ------------------------------------------------------------ actions
Handles == 1..Len(heap)

RECURSIVE TotalReadings(_)
TotalReadings(hp) ==
    IF hp = <<>> THEN 0 ELSE Head(hp).reading_count + TotalReadings(Tail(hp))

\* Whether the call reads the clock (custom_timestamp is None or 0)
ReadsClock(custom_timestamp) == IntOr(custom_timestamp, 0) = 0

\* The values the call's clock read can yield (one, unused, if it reads none)
Clocks(custom_timestamp) ==
    IF ReadsClock(custom_timestamp) THEN ClockValues ELSE {0}

NoCall == [op |-> "none"]

NoThread == [pc |-> "idle"]

\* add_meter with an unknown class falling back to the SOLAR profile
AddMeter_default_class(meter_type, meter_id, suffix) ==
    /\ Len(heap) < MaxMeters
    /\ LET handle == Len(heap) + 1
           known == IF meter_type \in DOMAIN METER_CONFIGS
                    THEN meter_type ELSE "SOLAR"
           meter == SmartMeter_init(known, meter_id, token_hex(handle), suffix)
       IN  /\ heap' = Append(heap, meter)
           /\ returned' = Append(returned, 0)
           /\ meters' = add_meter_insert(meters, meter.meter_id, handle)
           /\ last' = [op |-> "add_meter", meter_type |-> meter_type,
                       meter_id |-> meter_id, outcome |-> "ok",
                       value |-> handle]
    /\ UNCHANGED <<crypto_available, held, threads>>

\* fleet.add_meter(meter_type, meter_id)
AddMeter(meter_type, meter_id, suffix) ==
    /\ Len(heap) < MaxMeters
    /\ IF meter_type \notin DOMAIN METER_CONFIGS
       THEN /\ last' = [op |-> "add_meter", meter_type |-> meter_type,
                        meter_id |-> meter_id, outcome |-> "ValueError"]
            /\ UNCHANGED <<heap, returned, meters>>
       ELSE LET handle == Len(heap) + 1
                meter == SmartMeter_init(meter_type, meter_id,
                                         token_hex(handle), suffix)
            IN  /\ heap' = Append(heap, meter)
                /\ returned' = Append(returned, 0)
                /\ meters' = add_meter_insert(meters, meter.meter_id, handle)
                /\ last' = [op |-> "add_meter", meter_type |-> meter_type,
                            meter_id |-> meter_id, outcome |-> "ok",
                            value |-> handle]
    /\ UNCHANGED <<crypto_available, held, threads>>

\* get_meter as self.meters[meter_id]: KeyError for a missing identity
GetMeter_subscript(meter_id) ==
    /\ last' = IF meter_id \in DictKeys(meters)
               THEN [op |-> "get_meter", meter_id |-> meter_id,
                     outcome |-> "ok", value |-> get_meter(meters, meter_id)]
               ELSE [op |-> "get_meter", meter_id |-> meter_id,
                     outcome |-> "KeyError"]
    /\ UNCHANGED <<crypto_available, held, heap, returned, meters, threads>>

\* fleet.get_meter(meter_id)
GetMeter(meter_id) ==
    /\ last' = [op |-> "get_meter", meter_id |-> meter_id, outcome |-> "ok",
                value |-> get_meter(meters, meter_id)]
    /\ UNCHANGED <<crypto_available, held, heap, returned, meters, threads>>

\* fleet.get_status()
GetStatus ==
    /\ last' = [op |-> "get_status", outcome |-> "ok",
                value |-> get_status(meters, heap)]
    /\ UNCHANGED <<crypto_available, held, heap, returned, meters, threads>>

\* fleet.generate_all_readings(custom_timestamp)
GenerateAllReadings(custom_timestamp, choice) ==
    /\ TotalReadings(heap) + Len(meters) <= MaxReadings
    /\ LET vals == DictValues(meters)
           res == generate_all_readings(vals, 1, crypto_available,
                                        custom_timestamp, choice, heap, <<>>)
       IN  /\ heap' = res.heap
           /\ returned' = [h \in DOMAIN returned |->
                             returned[h]
                               + Cardinality({i \in 1..Len(res.value) :
                                                vals[i] = h})]
           /\ last' = IF res.outcome = "ok"
                      THEN [op |-> "generate_all_readings",
                            custom_timestamp |-> custom_timestamp,
                            outcome |-> "ok", value |-> res.value]
                      ELSE [op |-> "generate_all_readings",
                            custom_timestamp |-> custom_timestamp,
                            outcome |-> res.outcome]
    /\ UNCHANGED <<crypto_available, held, meters, threads>>

\* generate_reading with reading_count kept as one counter of the class,
\* shared by all instances
GenerateReading_shared_counter(h, custom_timestamp, draw, nonce, clock) ==
    /\ TotalReadings(heap) < MaxReadings
    /\ LET res == generate_reading(heap[h], crypto_available, custom_timestamp,
                                   clock, draw, nonce)
       IN  /\ heap' = [i \in DOMAIN heap |->
                         [heap[i] EXCEPT !.reading_count = res.self.reading_count]]
           /\ returned' = [returned EXCEPT
                             ![h] = IF res.outcome = "ok" THEN @ + 1 ELSE @]
           /\ last' = IF res.outcome = "ok"
                      THEN [op |-> "generate_reading", meter |-> h,
                            custom_timestamp |-> custom_timestamp,
                            outcome |-> "ok", value |-> res.reading]
                      ELSE [op |-> "generate_reading", meter |-> h,
                            custom_timestamp |-> custom_timestamp,
                            outcome |-> res.outcome]
    /\ UNCHANGED <<crypto_available, held, meters, threads>>

\* meter.generate_reading(custom_timestamp) on the instance with handle h
GenerateReading(h, custom_timestamp, draw, nonce, clock) ==
    /\ TotalReadings(heap) < MaxReadings
    /\ LET res == generate_reading(heap[h], crypto_available, custom_timestamp,
                                   clock, draw, nonce)
       IN  /\ heap' = [heap EXCEPT ![h] = res.self]
           /\ returned' = [returned EXCEPT
                             ![h] = IF res.outcome = "ok" THEN @ + 1 ELSE @]
           /\ last' = IF res.outcome = "ok"
                      THEN [op |-> "generate_reading", meter |-> h,
                            custom_timestamp |-> custom_timestamp,
                            outcome |-> "ok", value |-> res.reading]
                      ELSE [op |-> "generate_reading", meter |-> h,
                            custom_timestamp |-> custom_timestamp,
                            outcome |-> res.outcome]
    /\ UNCHANGED <<crypto_available, held, meters, threads>>

\* The fields of a reading a caller may alter before verification, and
\* "none" for the reading as generated.
TamperFields ==
    {"none", "kwh", "timestamp", "meter_id", "nonce", "carbon_tag",
     "meter_type", "reading_number", "is_producer", "kwh_scaled",
     "timestamp_iso"}

\* MeterReading(**{**asdict(reading), field: other value}) (line 322)
Tamper(reading, field) ==
    CASE field = "none" -> reading
      [] field = "kwh" ->
           [reading EXCEPT !.kwh = [milli |-> 999999, float |-> TRUE]]
      [] field = "timestamp" -> [reading EXCEPT !.timestamp = @ + 1]
      [] field = "meter_id" -> [reading EXCEPT !.meter_id = @ \o "X"]
      [] field = "nonce" -> [reading EXCEPT !.nonce = @ \o "0"]
      [] field = "carbon_tag" ->
           [reading EXCEPT !.carbon_tag = IF @ = "GREEN" THEN "NORMAL"
                                          ELSE "GREEN"]
      [] field = "meter_type" -> [reading EXCEPT !.meter_type = @ \o "X"]
      [] field = "reading_number" -> [reading EXCEPT !.reading_number = @ + 1]
      [] field = "is_producer" -> [reading EXCEPT !.is_producer = ~@]
      [] field = "kwh_scaled" -> [reading EXCEPT !.kwh_scaled = @ + 1]
      [] field = "timestamp_iso" ->
           [reading EXCEPT !.timestamp_iso =
              isoformat(fromtimestamp(reading.timestamp + 1))]

\* meter.verify_reading(r) on instance h, r the reading the last
\* generate_reading returned, as generated or with one field altered
VerifyReading(h, field) ==
    /\ last.op = "generate_reading"
    /\ last.outcome = "ok"
    /\ last' = IF crypto_available
               THEN [op |-> "verify_reading", meter |-> h,
                     producer |-> last.meter, field |-> field,
                     outcome |-> "ok",
                     value |-> verify_reading(heap[h],
                                              Tamper(last.value, field))]
               ELSE [op |-> "verify_reading", meter |-> h,
                     producer |-> last.meter, field |-> field,
                     outcome |-> "NameError"]
    /\ UNCHANGED <<crypto_available, held, heap, returned, meters, threads>>

\* get_info as an accessor that counts itself as a reading
GetInfo_counting(h) ==
    /\ last' = [op |-> "get_info", meter |-> h, outcome |-> "ok",
                value |-> get_info(heap[h])]
    /\ heap' = [heap EXCEPT ![h].reading_count = @ + 1]
    /\ UNCHANGED <<crypto_available, held, returned, meters, threads>>

\* meter.get_info() on instance h
GetInfo(h) ==
    /\ last' = [op |-> "get_info", meter |-> h, outcome |-> "ok",
                value |-> get_info(heap[h])]
    /\ UNCHANGED <<crypto_available, held, heap, returned, meters, threads>>

\* The caller is done with the value the last call returned.
Return ==
    /\ last # NoCall
    /\ last' = NoCall
    /\ UNCHANGED <<crypto_available, held, heap, returned, meters, threads>>

\* ------------------------------------------------------------ one meter
\* A SmartMeter, just constructed.
Init ==
    /\ crypto_available \in BOOLEAN
    /\ \E meter_type \in MeterType, meter_id \in MeterIdArgs,
          suffix \in HexSuffixes :
         heap = << SmartMeter_init(meter_type, meter_id, token_hex(1), suffix) >>
    /\ returned = << 0 >>
    /\ meters = <<>>
    /\ last = NoCall
    /\ threads = [t \in 1..NumThreads |-> NoThread]
    /\ held = None

Next ==
    \/ \E h \in Handles, custom_timestamp \in TimestampArgs,
          draw \in RandDraws, nonce \in Nonces :
         \E clock \in Clocks(custom_timestamp) :
           GenerateReading(h, custom_timestamp, draw, nonce, clock)
    \/ \E h \in Handles, field \in TamperFields : VerifyReading(h, field)
    \/ \E h \in Handles : GetInfo(h)

Spec == Init /\ [][Next]_vars

\* ------------------------------------------------------------ the fleet
\* A MeterFleet, just constructed.
FleetInit ==
    /\ crypto_available \in BOOLEAN
    /\ heap = <<>>
    /\ returned = <<>>
    /\ meters = <<>>
    /\ last = NoCall
    /\ threads = [t \in 1..NumThreads |-> NoThread]
    /\ held = None

\* get_meter arguments: identities a fleet run can hold, and one it cannot
GetMeterArgs == {"M1", "SOLAR-0000000A", "M9"}

\* How a fleet run presents a reading for verification: as generated, or
\* with the amount altered (line 322)
FleetTamperFields == {"none", "kwh"}

FleetChoices(custom_timestamp) ==
    [1..Len(meters) ->
       [draw : FleetDraws, nonce : FleetNonces, clock : Clocks(custom_timestamp)]]

\* A fleet run makes its calls one at a time: the next starts when the
\* caller is done with the last one's value.
Ready == last = NoCall

FleetNext ==
    \/ \E meter_type \in MeterTypeArgs, meter_id \in MeterIdArgs,
          suffix \in HexSuffixes :
         Ready /\ AddMeter(meter_type, meter_id, suffix)
    \/ \E meter_id \in GetMeterArgs : Ready /\ GetMeter(meter_id)
    \/ Ready /\ GetStatus
    \/ \E custom_timestamp \in TimestampArgs :
         \E choice \in FleetChoices(custom_timestamp) :
           Ready /\ GenerateAllReadings(custom_timestamp, choice)
    \/ \E h \in Handles, custom_timestamp \in TimestampArgs,
          draw \in FleetDraws, nonce \in FleetNonces :
         \E clock \in Clocks(custom_timestamp) :
           Ready /\ GenerateReading(h, custom_timestamp, draw, nonce, clock)
    \/ \E h \in Handles : Ready /\ GetInfo(h)
    \/ \E h \in Handles, field \in FleetTamperFields : VerifyReading(h, field)
    \/ Return

FleetSpec == FleetInit /\ [][FleetNext]_vars

\* ------------------------------------------------------------ custody
\* A caller of the fleet that keeps a reading (as the demo keeps `reading`,
\* line 310) and presents it for verification after later fleet calls.
CustodyTimestampArgs == {None, Some(43200000)}

\* The caller keeps the reading the last generate_reading returned, and
\* notes whether the meter it came from was the one the fleet held under
\* the reading's identity.
Keep ==
    /\ last.op = "generate_reading"
    /\ last.outcome = "ok"
    /\ held' = Some([reading |-> last.value,
                     producer |-> last.meter,
                     registered |->
                       get_meter(meters, last.value.meter_id) = Some(last.meter)])
    /\ last' = NoCall
    /\ UNCHANGED <<crypto_available, heap, returned, meters, threads>>

\* meter.verify_reading(r) on instance h, r the reading the caller kept
VerifyHeld(h) ==
    /\ held # None
    /\ last' = IF crypto_available
               THEN [op |-> "verify_reading", meter |-> h,
                     producer |-> held[1].producer, field |-> "none",
                     outcome |-> "ok",
                     value |-> verify_reading(heap[h], held[1].reading)]
               ELSE [op |-> "verify_reading", meter |-> h,
                     producer |-> held[1].producer, field |-> "none",
                     outcome |-> "NameError"]
    /\ UNCHANGED <<crypto_available, held, heap, returned, meters, threads>>

CustodyNext ==
    \/ \E meter_type \in MeterType, meter_id \in MeterIdArgs,
          suffix \in HexSuffixes :
         Ready /\ AddMeter(meter_type, meter_id, suffix)
    \/ \E h \in Handles, custom_timestamp \in CustodyTimestampArgs,
          draw \in FleetDraws, nonce \in FleetNonces :
         \E clock \in Clocks(custom_timestamp) :
           Ready /\ GenerateReading(h, custom_timestamp, draw, nonce, clock)
    \/ Keep
    \/ \E h \in Handles : Ready /\ VerifyHeld(h)
    \/ Return

CustodySpec == FleetInit /\ [][CustodyNext]_vars

\* ------------------------------------------------------------ threads
\* generate_reading called from several threads on the instance with handle
\* 1, with no lock: a thread switch can fall between any two of the steps
\* below (line 173 is a read of self.reading_count, then a write).
ThreadTimestampArgs == {Some(43200000), Some(-200000000)}

\* Lines 160-171: the timestamp, the hour and the rounded energy
ThreadBegin(t, custom_timestamp, draw, clock) ==
    /\ threads[t].pc = "idle"
    /\ LET timestamp == IntOr(custom_timestamp, clock)
       IN  threads' =
             [threads EXCEPT ![t] =
                IF ~InRange(timestamp)
                THEN [pc |-> "done", outcome |-> "ValueError"]
                ELSE [pc |-> "load", timestamp |-> timestamp,
                      rounded_kwh |->
                        Energy(heap[1], fromtimestamp(timestamp).hour, draw)]]
    /\ UNCHANGED <<crypto_available, held, heap, returned, meters, last>>

\* Line 173, the read of self.reading_count
ThreadLoad(t) ==
    /\ threads[t].pc = "load"
    /\ threads' = [threads EXCEPT ![t] =
                     [pc |-> "store", timestamp |-> @.timestamp,
                      rounded_kwh |-> @.rounded_kwh,
                      loaded |-> heap[1].reading_count]]
    /\ UNCHANGED <<crypto_available, held, heap, returned, meters, last>>

\* Line 173, the write of self.reading_count
ThreadStore(t) ==
    /\ threads[t].pc = "store"
    /\ heap' = [heap EXCEPT ![1].reading_count = threads[t].loaded + 1]
    /\ threads' = [threads EXCEPT ![t] =
                     [pc |-> "build", timestamp |-> @.timestamp,
                      rounded_kwh |-> @.rounded_kwh]]
    /\ UNCHANGED <<crypto_available, held, returned, meters, last>>

\* Lines 174-200: the nonce, then the MeterReading, which reads
\* self.reading_count again (line 195) and signs (line 196)
ThreadBuild(t, nonce) ==
    /\ threads[t].pc = "build"
    /\ IF ~crypto_available
       THEN /\ threads' = [threads EXCEPT ![t] =
                             [pc |-> "done", outcome |-> "NameError"]]
            /\ UNCHANGED returned
       ELSE /\ threads' =
                 [threads EXCEPT ![t] =
                    [pc |-> "done", outcome |-> "ok",
                     value |-> MeterReading(heap[1], @.rounded_kwh,
                                            @.timestamp, nonce,
                                            heap[1].reading_count)]]
            /\ returned' = [returned EXCEPT ![1] = @ + 1]
    /\ UNCHANGED <<crypto_available, held, heap, meters, last>>

ConcNext ==
    \/ \E t \in 1..NumThreads, custom_timestamp \in ThreadTimestampArgs,
          draw \in FleetDraws :
         \E clock \in Clocks(custom_timestamp) :
           ThreadBegin(t, custom_timestamp, draw, clock)
    \/ \E t \in 1..NumThreads : ThreadLoad(t)
    \/ \E t \in 1..NumThreads : ThreadStore(t)
    \/ \E t \in 1..NumThreads, nonce \in Nonces : ThreadBuild(t, nonce)

ConcSpec == Init /\ [][ConcNext]_vars

\* ------------------------------------------------------------ claims
\* C1: the reading generate_reading returns is accepted by verify_reading
\* of the same instance, whatever the class, the timestamp and the calls
\* made before: right after the call, and when the caller verifies it.
C1_VerifyAcceptsGenerated ==
    /\ (last.op = "generate_reading" /\ last.outcome = "ok")
         => verify_reading(heap[last.meter], last.value)
    /\ (last.op = "verify_reading" /\ last.field = "none"
          /\ last.producer = last.meter)
         => (last.outcome = "ok" /\ last.value = TRUE)

\* A second reading of a meter, unaltered, has been verified and accepted.
C1_Witness ==
    /\ last.op = "verify_reading"
    /\ last.field = "none"
    /\ last.outcome = "ok"
    /\ last.value = TRUE
    /\ heap[last.meter].reading_count = 2

SignedFields == {"kwh", "timestamp", "meter_id", "nonce", "carbon_tag"}

\* C2: a reading of meter m with exactly one of amount, timestamp, identity,
\* nonce, carbon tag altered is rejected by m.verify_reading, which returns
\* false and does not raise.
C2_TamperRejected ==
    (last.op = "verify_reading" /\ last.field \in SignedFields
       /\ last.producer = last.meter)
      => (last.outcome = "ok" /\ last.value = FALSE)

\* C3: two generate_reading calls on one meter that draw different nonces
\* never return the same signature nor the same data_hash.
C3_NonceSeparatesTags ==
    [][(/\ last.op = "generate_reading" /\ last.outcome = "ok"
        /\ last'.op = "generate_reading" /\ last'.outcome = "ok"
        /\ last'.meter = last.meter
        /\ last'.value.reading_number = last.value.reading_number + 1
        /\ last'.value.nonce # last.value.nonce)
       => (/\ last'.value.signature # last.value.signature
           /\ last'.value.data_hash # last.value.data_hash)]_vars

\* C4: the reading counter is the number of readings the meter has returned:
\* it starts at 0, the k-th reading returned carries reading_number k, and
\* get_info reports that number as total_readings.
C4_CounterCountsReadings ==
    /\ \A h \in Handles : heap[h].reading_count = returned[h]
    /\ (last.op = "generate_reading" /\ last.outcome = "ok")
         => (/\ last.value.reading_number = returned[last.meter]
             /\ last.value.reading_number >= 1)
    /\ last.op = "get_info"
         => last.value.total_readings = returned[last.meter]

\* C5: add_meter with an identity that is already a key of the fleet fails
\* with DuplicateIdentity and leaves the fleet, and the meter stored under
\* that identity, as they were.
C5_DuplicateRejected ==
    [][(/\ last'.op = "add_meter"
        /\ last'.meter_type \in MeterType
        /\ last'.meter_id # None
        /\ last'.meter_id[1] \in DictKeys(meters))
       => (/\ last'.outcome = "DuplicateIdentity"
           /\ meters' = meters
           /\ heap'[get_meter(meters', last'.meter_id[1])[1]]
                = heap[get_meter(meters, last'.meter_id[1])[1]])]_vars

\* C6: a generate_reading call that raises leaves the reading counter as it
\* was.
C6_NoPartialFailure ==
    [][(last'.op = "generate_reading" /\ last'.outcome # "ok")
       => heap'[last'.meter].reading_count
            = heap[last'.meter].reading_count]_vars

Malformed(custom_timestamp) ==
    custom_timestamp # None /\ custom_timestamp[1] < 0

\* C7: generate_reading with a negative timestamp fails: it returns no
\* reading and leaves the counter unchanged.  (Stated where hmac is bound;
\* in the other build every call fails, which C6 is about.)
C7_MalformedTimestampFails ==
    [][(/\ crypto_available
        /\ last'.op = "generate_reading"
        /\ Malformed(last'.custom_timestamp))
       => (last'.outcome # "ok" /\ heap' = heap)]_vars

AllReturned ==
    \A t \in 1..NumThreads : threads[t].pc = "done" /\ threads[t].outcome = "ok"

\* C8: n concurrent generate_reading calls on one meter return the
\* reading numbers 1..n, each once, and leave the counter at n.
C8_Linearizable ==
    AllReturned
      => (/\ \A n \in 1..NumThreads :
               Cardinality({t \in 1..NumThreads :
                              threads[t].value.reading_number = n}) = 1
          /\ heap[1].reading_count = NumThreads)

\* C9: generate_all_readings returns one reading per meter of the fleet, in
\* the order the identities were first inserted, all with the same
\* timestamp, and each meter's counter grows by exactly 1.
C9_OneReadingPerMeter ==
    [][last'.op = "generate_all_readings"
       => (/\ last'.outcome = "ok"
           /\ Len(last'.value) = Len(meters)
           /\ \A i \in 1..Len(meters) :
                /\ last'.value[i].meter_id = meters[i].key
                /\ last'.value[i].timestamp = last'.value[1].timestamp
                /\ heap'[meters[i].value].reading_count
                     = heap[meters[i].value].reading_count + 1)]_vars

FleetKeys == DictKeys(meters)

MeterOf(k) == heap[get_meter(meters, k)[1]]

\* C10: get_status reports the number of meters in the fleet, the number
\* whose class is a producer and the number whose class is a consumer,
\* which sum to the total, and exactly one info record per meter.
C10_StatusCounts ==
    last.op = "get_status"
      => LET v == last.value
         IN  /\ v.total_meters = Cardinality(FleetKeys)
             /\ v.producers
                  = Cardinality({k \in FleetKeys :
                                   METER_CONFIGS[MeterOf(k).meter_type].is_producer})
             /\ v.consumers
                  = Cardinality({k \in FleetKeys :
                                   ~METER_CONFIGS[MeterOf(k).meter_type].is_producer})
             /\ v.producers + v.consumers = v.total_meters
             /\ Len(v.meters) = v.total_meters
             /\ \A k \in FleetKeys :
                  Cardinality({i \in 1..Len(v.meters) :
                                 v.meters[i].meter_id = k}) = 1

\* The status of a fleet of one producer and one consumer, one of which has
\* generated a reading.
C10_Witness ==
    /\ last.op = "get_status"
    /\ last.value.producers = 1
    /\ last.value.consumers = 1
    /\ \E h \in Handles : heap[h].reading_count > 0

ReadOps == {"verify_reading", "get_info", "get_status", "get_meter"}

\* C11: verify_reading, get_info, get_status and get_meter are pure reads:
\* whatever their argument and result, a failed verification included, they
\* leave every meter's counter, identity and secret key and the fleet's set
\* of meters unchanged.
C11_ReadsArePure ==
    [][last'.op \in ReadOps
       => (heap' = heap /\ meters' = meters /\ returned' = returned)]_vars

\* A fleet of two meters after one of them rejected an altered reading.
C11_Witness ==
    /\ last.op = "verify_reading"
    /\ last.outcome = "ok"
    /\ last.value = FALSE
    /\ last.field = "kwh"
    /\ last.meter = last.producer
    /\ Len(meters) = 2

PayloadFields == {"meter_id", "kwh", "timestamp", "carbon_tag", "meter_type"}

\* C12: the signature is a function of the secret key and of exactly
\* meterId, kWh, timestamp, carbonTag and type: a reading that differs from
\* a generated one in the nonce, reading_number, is_producer, kwh_scaled or
\* timestamp_iso alone has the same signature under the meter's key, and one
\* that differs in any one of the five has another.
C12_SignatureOfFiveFields ==
    /\ (last.op = "generate_reading" /\ last.outcome = "ok")
         => \A field \in TamperFields \ {"none"} :
              LET r == Tamper(last.value, field)
                  data == [meter_id |-> r.meter_id, meter_type |-> r.meter_type,
                           kwh |-> r.kwh, timestamp |-> r.timestamp,
                           carbon_tag |-> r.carbon_tag, nonce |-> r.nonce]
              IN  (sign_data(heap[last.meter], data) = last.value.signature)
                    <=> field \notin PayloadFields
    /\ (last.op = "verify_reading" /\ last.outcome = "ok"
          /\ last.producer = last.meter /\ last.field # "none")
         => (last.value <=> last.field \notin PayloadFields)

\* The meter accepted its second reading with another reading_number.
C12_Witness ==
    /\ last.op = "verify_reading"
    /\ last.outcome = "ok"
    /\ last.field = "reading_number"
    /\ last.value = TRUE
    /\ heap[last.meter].reading_count = 2

\* C13: every reading has kwh >= 0 and kwh_scaled equal to kwh * 1000
\* rounded to the nearest integer.
C13_ScaledIsRounded ==
    (last.op = "generate_reading" /\ last.outcome = "ok")
      => (/\ last.value.kwh.milli >= 0
          /\ last.value.kwh_scaled = last.value.kwh.milli)

\* The reading's hour of day, as line 162 takes it from the timestamp
HourOf(reading) == fromtimestamp(reading.timestamp).hour

\* base_output * hourly_factor of a class at an hour, in thousandths
BaseMilli(meter_type, hour) ==
    METER_CONFIGS[meter_type].base_output
      * METER_CONFIGS[meter_type].hourly_factors[hour + 1] * 100

\* variance / 2 of a class, in thousandths
HalfVarianceMilli(meter_type) == METER_CONFIGS[meter_type].variance * 500

\* C14: the energy of a reading generated at hour h lies between
\* max(0, base_output * factor[h] - variance/2) and
\* base_output * factor[h] + variance/2 of the meter's class, and its
\* is_producer and carbon_tag are the class's: SOLAR at hour 12 gives an
\* amount in [4.0, 6.0], producer, GREEN; HOSTEL at hour 0 one in [0.5, 5.5].
C14_EnergyInClassRange ==
    (last.op = "generate_reading" /\ last.outcome = "ok")
      => LET r == last.value
             t == heap[last.meter].meter_type
             lo == BaseMilli(t, HourOf(r)) - HalfVarianceMilli(t)
             hi == BaseMilli(t, HourOf(r)) + HalfVarianceMilli(t)
         IN  /\ r.kwh.milli >= (IF lo > 0 THEN lo ELSE 0)
             /\ r.kwh.milli <= hi
             /\ r.is_producer = METER_CONFIGS[t].is_producer
             /\ r.carbon_tag = METER_CONFIGS[t].carbon_tag
             /\ (t = "SOLAR" /\ HourOf(r) = 12)
                  => (/\ r.kwh.milli >= 4000 /\ r.kwh.milli <= 6000
                      /\ r.is_producer /\ r.carbon_tag = "GREEN")
             /\ (t = "HOSTEL" /\ HourOf(r) = 0)
                  => (r.kwh.milli >= 500 /\ r.kwh.milli <= 5500)

\* A reading of a production hour of a SOLAR meter at the lowest draw: the
\* amount is the lower end of the class's range for that hour.
C14_Witness ==
    /\ last.op = "generate_reading"
    /\ last.outcome = "ok"
    /\ heap[last.meter].meter_type = "SOLAR"
    /\ BaseMilli("SOLAR", HourOf(last.value)) = 5000
    /\ last.value.kwh.milli = 4000

\* C15: constructing a meter with a class outside the enumeration fails
\* with the invalid-class error (ValueError, line 125), and add_meter with
\* such a class fails the same way and leaves the fleet unchanged: no
\* entry added, total_meters as before.
C15_InvalidClassRejected ==
    [][(last'.op = "add_meter" /\ last'.meter_type \notin MeterType)
       => (/\ last'.outcome = "ValueError"
           /\ meters' = meters
           /\ heap' = heap
           /\ get_status(meters', heap').total_meters
                = get_status(meters, heap).total_meters)]_vars

\* add_meter with the class WIND has failed on a fleet that holds a meter
\* under the identity given.
C15_Witness ==
    /\ last.op = "add_meter"
    /\ last.meter_type = "WIND"
    /\ last.outcome = "ValueError"
    /\ last.meter_id = Some("M1")
    /\ DictKeys(meters) = {"M1"}

\* The instances a fleet run has added under an identity, oldest first
AddedUnder(meter_id) == {h \in Handles : heap[h].meter_id = meter_id}

\* C16: get_meter(id) never fails: it returns the meter stored under id
\* when one has been added, and None (no meter) when none has.
C16_GetMeterTotal ==
    last.op = "get_meter"
      => /\ last.outcome = "ok"
         /\ IF AddedUnder(last.meter_id) = {}
            THEN last.value = None
            ELSE /\ last.value # None
                 /\ last.value[1] \in AddedUnder(last.meter_id)
                 /\ \A h \in AddedUnder(last.meter_id) : h <= last.value[1]

\* get_meter has found the second of two meters added under different
\* identities.
C16_Witness ==
    /\ last.op = "get_meter"
    /\ last.outcome = "ok"
    /\ last.value = Some(2)
    /\ heap[1].meter_id # heap[2].meter_id

\* C17: when a timestamp is supplied to generate_reading, the reading's
\* timestamp equals the supplied value, for every supplied value, 0
\* included; the clock is used only when none is supplied.
C17_SuppliedTimestampKept ==
    (/\ last.op = "generate_reading"
     /\ last.outcome = "ok"
     /\ last.custom_timestamp # None)
      => last.value.timestamp = last.custom_timestamp[1]

\* The instance the fleet holds under the identity of the kept reading
HolderOfHeld == get_meter(meters, held[1].reading.meter_id)

\* C18: a reading is accepted only by the instance whose key signed it:
\* another instance rejects it, even one of the same identity and class;
\* and within a fleet a reading obtained from the meter registered under X
\* is still accepted by get_meter(X).verify_reading after any later fleet
\* calls.
C18_OnlySignerAccepts ==
    (last.op = "verify_reading" /\ last.outcome = "ok" /\ held # None)
      => /\ last.meter # last.producer => last.value = FALSE
         /\ (held[1].registered /\ HolderOfHeld = Some(last.meter))
              => last.value = TRUE

\* C19: meters share no mutable state: generate_reading on one meter
\* leaves the counter, identity and secret key of every other meter and the
\* fleet's set of identities unchanged, so the number a reading carries
\* depends on its own meter's counter alone.  (The class profile table
\* METER_CONFIGS is assigned nowhere in the source; it is a constant here.)
C19_MetersShareNoState ==
    [][last'.op = "generate_reading"
       => (/\ Len(heap') = Len(heap)
           /\ \A h \in Handles \ {last'.meter} : heap'[h] = heap[h]
           /\ heap'[last'.meter].meter_id = heap[last'.meter].meter_id
           /\ heap'[last'.meter].secret_key = heap[last'.meter].secret_key
           /\ meters' = meters
           /\ last'.outcome = "ok"
                => last'.value.reading_number
                     = heap[last'.meter].reading_count + 1)]_vars

\* The second meter of a fleet has returned its first reading after the
\* first meter returned one.
C19_Witness ==
    /\ last.op = "generate_reading"
    /\ last.outcome = "ok"
    /\ last.meter = 2
    /\ last.value.reading_number = 1
    /\ heap[1].reading_count = 1
====
